---- MODULE Spec2Model ----
(***************************************************************************)
(* Model of cmd/zoekt-merge-index/zoekt-merge-small.py: the manual merge   *)
(* policy that scans an index directory (get_shards), filters and packs    *)
(* the repositories into compounds (gen_compounds) and runs the external   *)
(* merge on each compound, archiving its inputs on success (run_merge,     *)
(* write_status, main).                                                    *)
(*                                                                         *)
(* Units.  Sizes are counted in KiB (1024 bytes): 2 GiB in bytes does not  *)
(* fit the model checker's integers.  Every size the model uses is a whole *)
(* number of KiB and the code only adds and compares sizes, so the scale   *)
(* changes no outcome.  Times are whole seconds.                           *)
(*                                                                         *)
(* File names are sequences of tokens, e.g. r101, _v16, .00000, .zoekt for *)
(* r101_v16.00000.zoekt; a path is identified with its file name (every    *)
(* path of a run has the index directory as parent).                       *)
(***************************************************************************)
EXTENDS Integers, Sequences, FiniteSets, TLC

\* n MiB in KiB
MiB(n) == 1024 * n

\* a cap of 1024 MiB on a repository
MAX_REPO_SIZE_1GiB == 1024 * 1024

\* zoekt-merge-small.py:15-17 (the two sizes in KiB)
MAX_REPO_SIZE == 1024 * 100
MAX_COMPOUND_SIZE == 2 * 1024 * 1024
MIN_AGE_SECONDS == 24 * 60 * 60

(***************************************************************************)
(* Bounds of the model.                                                    *)
(***************************************************************************)
MaxBulk == 22      \* most repositories of the uniform part of an inventory
SmallBulk == 2     \* most uniform repositories beside two or more shaped ones
MaxSpecial == 2    \* most individually shaped repositories of an inventory
MaxTicks == 1      \* seconds the clock may advance after the start
MaxLater == 2      \* most shard files in the index directory when a later run starts
MaxWritten == 1    \* most items written to a file before a write fails
MaxRuns == 2       \* runs of main on the same index directory

StartTime == 3 * MIN_AGE_SECONDS

(***************************************************************************)
(* Generic helpers.                                                        *)
(***************************************************************************)
RECURSIVE SumSeq(_)
SumSeq(s) == IF s = <<>> THEN 0 ELSE Head(s) + SumSeq(Tail(s))

RECURSIVE MinSeq(_)
MinSeq(s) == IF Len(s) = 1 THEN s[1]
             ELSE LET m == MinSeq(Tail(s)) IN IF s[1] <= m THEN s[1] ELSE m

RECURSIVE Flatten(_)
Flatten(ss) == IF ss = <<>> THEN <<>> ELSE Head(ss) \o Flatten(Tail(ss))

Range(s) == {s[i] : i \in DOMAIN s}

Reverse(s) == [i \in 1..Len(s) |-> s[Len(s) + 1 - i]]

(***************************************************************************)
(* File names.  A token is a pair <<text, number>> standing for the text   *)
(* followed by the decimal number (no number when it is 0): <<"r", 101>>   *)
(* is r101 and <<"_v16", 0>> is _v16.                                      *)
(***************************************************************************)
Tok(text) == <<text, 0>>

RepoKey(prefix, j) == <<prefix, 100 + j>>

V16 == Tok("_v16")
Shard0 == Tok(".00000")
Shard1 == Tok(".00001")
Zoekt == Tok(".zoekt")
Meta == Tok(".meta")
NoSuffix == Tok("")

\* The order in which Python compares the texts ('.' < '_' < lower-case
\* letters).
TextRank(text) ==
    CASE text = ".00000" -> 1
      [] text = ".00001" -> 2
      [] text = ".meta" -> 3
      [] text = ".scratch" -> 4
      [] text = ".zoekt" -> 5
      [] text = "_v16" -> 6
      [] text = "_v17" -> 7
      [] text = "compound" -> 8
      [] text = "r" -> 9
      [] text = "s" -> 10

TokenLess(a, b) ==
    \/ TextRank(a[1]) < TextRank(b[1])
    \/ a[1] = b[1] /\ a[2] < b[2]

\* str.__lt__ on two file names: lexicographic, a proper prefix is smaller.
RECURSIVE NameLess(_, _)
NameLess(a, b) ==
    IF b = <<>> THEN FALSE
    ELSE IF a = <<>> THEN TRUE
    ELSE IF Head(a) = Head(b) THEN NameLess(Tail(a), Tail(b))
    ELSE TokenLess(Head(a), Head(b))

\* list.__lt__ on two lists of paths.
RECURSIVE PathsLess(_, _)
PathsLess(p, q) ==
    IF q = <<>> THEN FALSE
    ELSE IF p = <<>> THEN TRUE
    ELSE IF Head(p) = Head(q) THEN PathsLess(Tail(p), Tail(q))
    ELSE NameLess(Head(p), Head(q))

\* name.find('_v16'): the position of the first marker, 0 when there is none
\* (Python's -1).
Find(name, marker) ==
    IF \E i \in DOMAIN name : name[i] = marker
    THEN CHOOSE i \in DOMAIN name :
            name[i] = marker /\ \A j \in 1..(i - 1) : name[j] # marker
    ELSE 0

\* Path.suffix: the last dot-component of the name, "" when there is none or
\* when the name is only that component (a hidden file).
Suffix(name) ==
    IF Len(name) > 1 /\ name[Len(name)] \in {Shard0, Shard1, Meta, Zoekt}
    THEN name[Len(name)] ELSE NoSuffix

(***************************************************************************)
(* get_shards (lines 19-39).  listing is the index directory as iterdir    *)
(* enumerates it: a sequence of entries [name, isfile, mtime, st_size].    *)
(***************************************************************************)
\* line 24: the entries that are kept
IsShard(child) == child.isfile /\ Find(child.name, V16) # 0

\* line 27
RepoOf(name) == SubSeq(name, 1, Find(name, V16) - 1)

\* line 29
SizeOf(child) == IF Suffix(child.name) = Zoekt THEN child.st_size ELSE 0

\* lines 21-30: the keys of the defaultdict in insertion order
RECURSIVE KeysInOrder(_, _)
KeysInOrder(children, seen) ==
    IF children = <<>> THEN <<>>
    ELSE LET k == RepoOf(Head(children).name) IN
         IF k \in seen THEN KeysInOrder(Tail(children), seen)
         ELSE <<k>> \o KeysInOrder(Tail(children), seen \cup {k})

\* lines 32-37: one (mtime, size, paths) per repository
RepoGroup(items) ==
    [mtime |-> MinSeq([i \in DOMAIN items |-> items[i].mtime]),
     size  |-> SumSeq([i \in DOMAIN items |-> SizeOf(items[i])]),
     paths |-> [i \in DOMAIN items |-> items[i].name]]

get_shards(listing) ==
    LET children == SelectSeq(listing, IsShard)
        keys == KeysInOrder(children, {})
        ItemsOf(k) == SelectSeq(children, LAMBDA c : RepoOf(c.name) = k)
    IN  [i \in DOMAIN keys |-> RepoGroup(ItemsOf(keys[i]))]

(***************************************************************************)
(* gen_compounds (lines 41-80).                                            *)
(***************************************************************************)
\* sorted with key (mtime, size): groups that tie keep the order in which the
\* inventory returned them
RepoLessNoTie(a, b) ==
    \/ a.mtime < b.mtime
    \/ a.mtime = b.mtime /\ a.size < b.size

\* tuple.__lt__ on (mtime, size, paths), the order sorted(repos) uses
RepoLess(a, b) ==
    \/ a.mtime < b.mtime
    \/ a.mtime = b.mtime /\ a.size < b.size
    \/ a.mtime = b.mtime /\ a.size = b.size /\ PathsLess(a.paths, b.paths)

\* the groups are packed in the order the inventory returned them
Unsorted(s) == s

\* sorted(): stable, ascending
RECURSIVE Insert(_, _)
Insert(x, s) ==
    IF s = <<>> THEN <<x>>
    ELSE IF RepoLess(x, Head(s)) THEN <<x>> \o s
    ELSE <<Head(s)>> \o Insert(x, Tail(s))

RECURSIVE Sorted(_)
Sorted(s) == IF s = <<>> THEN <<>>
             ELSE Insert(s[Len(s)], Sorted(SubSeq(s, 1, Len(s) - 1)))

\* a strict size comparison
IsCandidateStrict(r, min_age) == r.size < MAX_REPO_SIZE /\ r.mtime <= min_age

\* line 46
IsCandidate(r, min_age) == r.size <= MAX_REPO_SIZE /\ r.mtime <= min_age

SizePaths(rs) == [i \in DOMAIN rs |-> [size |-> rs[i].size, paths |-> rs[i].paths]]

\* lines 42-49
Candidates(rs, t) ==
    SizePaths(SelectSeq(Sorted(rs), LAMBDA r : IsCandidate(r, t - MIN_AGE_SECONDS)))

Ignored(rs, t) ==
    SizePaths(SelectSeq(Sorted(rs), LAMBDA r : ~IsCandidate(r, t - MIN_AGE_SECONDS)))

\* a group that fills the open Compound exactly to the cap opens a new one
OverflowsAtCap(current_size, size) == current_size + size >= MAX_COMPOUND_SIZE

\* the cap tested before the group is added
OverflowsBefore(current_size, size) == current_size > MAX_COMPOUND_SIZE

\* line 62
Overflows(current_size, size) == current_size + size > MAX_COMPOUND_SIZE

\* the open compound is topped up with the first path of a group that does not
\* fit, the rest of the group opens the next compound
PackOneSplit(cs, c) ==
    IF Len(cs) = 0 THEN Append(cs, c)
    ELSE LET cur == cs[Len(cs)] IN
         IF Overflows(cur.size, c.size)
         THEN Append([cs EXCEPT ![Len(cs)] =
                         [size |-> cur.size, paths |-> Append(cur.paths, Head(c.paths))]],
                     [size |-> c.size, paths |-> Tail(c.paths)])
         ELSE [cs EXCEPT ![Len(cs)] =
                  [size |-> cur.size + c.size, paths |-> cur.paths \o c.paths]]

\* the group that does not fit closes the compound and is forgotten
PackOneDrop(cs, c) ==
    IF Len(cs) = 0 THEN Append(cs, c)
    ELSE LET cur == cs[Len(cs)] IN
         IF Overflows(cur.size, c.size) THEN Append(cs, [size |-> 0, paths |-> <<>>])
         ELSE [cs EXCEPT ![Len(cs)] =
                  [size |-> cur.size + c.size, paths |-> cur.paths \o c.paths]]

\* lines 53-67: one iteration of the packing loop
PackOne(cs, c) ==
    IF Len(cs) = 0 THEN Append(cs, c)
    ELSE LET cur == cs[Len(cs)] IN
         IF Overflows(cur.size, c.size) THEN Append(cs, c)
         ELSE [cs EXCEPT ![Len(cs)] =
                  [size |-> cur.size + c.size, paths |-> cur.paths \o c.paths]]

\* lines 52-67
RECURSIVE Pack(_, _)
Pack(cs, cands) ==
    IF cands = <<>> THEN cs ELSE Pack(PackOne(cs, Head(cands)), Tail(cands))

(***************************************************************************)
(* run_merge (lines 98-115): the input of the external merge.              *)
(***************************************************************************)
\* every path of the Compound is passed to the merge
MergeInputAll(paths) == paths

\* line 100: only the index files are passed to zoekt-merge-index
MergeInput(paths) == SelectSeq(paths, LAMBDA p : Suffix(p) = Zoekt)

\* line 87
StatusOf(returncode) == IF returncode = 0 THEN "success" ELSE "failed"

(***************************************************************************)
(* Inventories the runs start from.  A uniform part of n repositories with *)
(* one index shard each (two days old, all of one size), followed by up to *)
(* MaxSpecial individually shaped repositories.                            *)
(***************************************************************************)
Entry(key, shard, exts, mtime, st_size) ==
    [name |-> <<key, V16, shard>> \o exts, isfile |-> TRUE,
     mtime |-> mtime, st_size |-> st_size]

BulkMtime == StartTime - 2 * MIN_AGE_SECONDS
Older     == BulkMtime - 1
Edge      == StartTime - MIN_AGE_SECONDS
Fresh     == StartTime - 60 * 60

BulkSizes == {MiB(100), MiB(300)}

Bulk(n, size) ==
    [j \in 1..n |-> Entry(RepoKey("r", j), Shard0, <<Zoekt>>, BulkMtime, size)]

\* The shapes of an individually shaped repository.
Shapes ==
    \* one index shard: sizes around MAX_REPO_SIZE, ages around MIN_AGE_SECONDS
    <<[shape |-> "index", size |-> MiB(48), mtime |-> Older, mtime2 |-> Older],
      [shape |-> "index", size |-> MiB(48) + 1, mtime |-> Older, mtime2 |-> Older],
      [shape |-> "index", size |-> MiB(100), mtime |-> Older, mtime2 |-> Older],
      [shape |-> "index", size |-> MiB(100) + 1, mtime |-> Older, mtime2 |-> Older],
      [shape |-> "index", size |-> MiB(48), mtime |-> Edge, mtime2 |-> Edge],
      [shape |-> "index", size |-> MiB(100), mtime |-> Edge, mtime2 |-> Edge],
      [shape |-> "index", size |-> MiB(100) + 1, mtime |-> Edge, mtime2 |-> Edge],
      [shape |-> "index", size |-> MiB(48), mtime |-> Edge + 1, mtime2 |-> Edge + 1],
      [shape |-> "index", size |-> MiB(100), mtime |-> Edge + 1, mtime2 |-> Edge + 1],
      [shape |-> "index", size |-> MiB(100) + 1, mtime |-> Edge + 1, mtime2 |-> Edge + 1],
      [shape |-> "index", size |-> MiB(10), mtime |-> Fresh, mtime2 |-> Fresh],
      \* an index shard with its meta file, either discovered first
      [shape |-> "index+meta", size |-> MiB(100), mtime |-> Edge, mtime2 |-> Fresh],
      [shape |-> "meta+index", size |-> MiB(5), mtime |-> Fresh, mtime2 |-> Older],
      \* a meta file whose index shard is gone
      [shape |-> "meta", size |-> 0, mtime |-> Older, mtime2 |-> Older],
      \* two index shards of one repository
      [shape |-> "two", size |-> MiB(50), mtime |-> Older, mtime2 |-> Fresh],
      [shape |-> "two", size |-> MiB(50) + 1, mtime |-> Edge, mtime2 |-> Older]>>

Special(key, c) ==
    LET index == Entry(key, Shard0, <<Zoekt>>, c.mtime, c.size)
        meta  == Entry(key, Shard0, <<Zoekt, Meta>>, c.mtime2, 1)
        second == Entry(key, Shard1, <<Zoekt>>, c.mtime2, c.size)
    IN  CASE c.shape = "index"      -> <<index>>
          [] c.shape = "index+meta" -> <<index, meta>>
          [] c.shape = "meta+index" -> <<meta, index>>
          [] c.shape = "meta"       -> <<meta>>
          [] c.shape = "two"        -> <<index, second>>

\* The shaped repositories of an inventory: a choice of shapes, in the order of
\* Shapes, the j-th of them under the key s10j.
RECURSIVE Ascending(_, _)
Ascending(set, from) ==
    IF set = {} THEN <<>>
    ELSE IF from \in set THEN <<from>> \o Ascending(set \ {from}, from + 1)
    ELSE Ascending(set, from + 1)

Choices(n) ==
    {c \in SUBSET DOMAIN Shapes :
        /\ Cardinality(c) <= MaxSpecial
        /\ Cardinality(c) <= 1 \/ n <= SmallBulk}

Inventory(n, size, choice) ==
    LET picked == Ascending(choice, 1) IN
    Bulk(n, size)
    \o Flatten([j \in DOMAIN picked |-> Special(RepoKey("s", j), Shapes[picked[j]])])

\* iterdir enumerates in no particular order: every inventory is listed in the
\* order above and in the opposite one.
Inventories ==
    UNION {{IF backwards THEN Reverse(Inventory(n, size, choice))
            ELSE Inventory(n, size, choice) :
               size \in BulkSizes, choice \in Choices(n), backwards \in BOOLEAN} :
           n \in 0..MaxBulk}

(***************************************************************************)
(* State.                                                                  *)
(***************************************************************************)
VARIABLES
    clock,       \* time.time(), in seconds
    dir,         \* the index directory, as iterdir enumerates it
    bak,         \* names of the files in .scratch/bak
    scratch,     \* .scratch: (timestamp, status) |-> the .paths and .log contents
    pc,          \* where main is
    run,         \* number of the current run of main
    repos,       \* main: repos
    now,         \* gen_compounds: the reading of time.time() on line 44
    candidates,  \* gen_compounds: candidates
    ignored,     \* gen_compounds: ignored
    compounds,   \* gen_compounds: compounds, the (size, paths) pairs
    i,           \* main: position of the loop of line 129 in compounds
    proc,        \* run_merge: the completed process
    k,           \* run_merge: position of the loop of line 114 in paths
    nmerged,     \* merged shards the external merge has written so far
    invoked,     \* history: the inputs of the merges invoked in this run
    outcomes,    \* history: the return codes of the merges of this run
    executed,    \* history: calls of write_status so far, all runs
    past         \* history: one summary per earlier run, ended or aborted

vars == <<clock, dir, bak, scratch, pc, run, repos, now, candidates, ignored,
          compounds, i, proc, k, nmerged, invoked, outcomes, executed, past>>

NoProc == [returncode |-> 0, stdout |-> <<0, 0>>]

Init ==
    /\ clock = StartTime
    /\ dir \in Inventories
    /\ bak = {}
    /\ scratch = <<>>
    /\ pc = "start"
    /\ run = 1
    /\ repos = <<>>
    /\ now = StartTime
    /\ candidates = <<>>
    /\ ignored = <<>>
    /\ compounds = <<>>
    /\ i = 1
    /\ proc = NoProc
    /\ k = 1
    /\ nmerged = 0
    /\ invoked = <<>>
    /\ outcomes = <<>>
    /\ executed = 0
    /\ past = <<>>

Names(listing) == {listing[j].name : j \in DOMAIN listing}

\* a shard written by the external merge
IsMerged(name) == name[1][1] = "compound"

InsertAt(s, e, place) == SubSeq(s, 1, place) \o <<e>> \o SubSeq(s, place + 1, Len(s))

RECURSIVE Placed(_, _)
Placed(base, new) ==
    IF new = <<>> THEN {base}
    ELSE UNION {{InsertAt(b, Head(new), place) : place \in 0..Len(b)} :
                   b \in Placed(base, Tail(new))}

\* line 22: iterdir enumerates the directory in no particular order.  The
\* entries the runs started from keep the order of the inventory (either of
\* the two of Inventories); a shard that a merge has added since is enumerated
\* at any place among them.  Only entries that line 24 keeps are placed: where
\* the others are enumerated is not observed.
Enumerations(listing) ==
    LET IsAdded(e) == IsShard(e) /\ IsMerged(e.name) IN
    Placed(SelectSeq(listing, LAMBDA e : ~IsAdded(e)), SelectSeq(listing, IsAdded))

\* main, line 127
GetShards ==
    /\ pc = "start"
    /\ \E listing \in Enumerations(dir) :
          /\ dir' = listing
          /\ repos' = get_shards(listing)
    /\ pc' = "gen"
    /\ UNCHANGED <<clock, bak, scratch, run, now, candidates, ignored,
                   compounds, i, proc, k, nmerged, invoked, outcomes, executed, past>>

\* get_shards, lines 23-28: listing the directory or the stat of a file raises
\* (the directory cannot be read, a file is gone since it was listed); the
\* exception is not caught and the run ends with nothing changed
GetShardsError ==
    /\ pc = "start"
    /\ pc' = "aborted"
    /\ UNCHANGED <<clock, dir, bak, scratch, run, repos, now, candidates, ignored,
                   compounds, i, proc, k, nmerged, invoked, outcomes, executed, past>>

\* main, line 128: gen_compounds(repos)
GenCompounds ==
    /\ pc = "gen"
    /\ now' = clock
    /\ candidates' = Candidates(repos, clock)
    /\ ignored' = Ignored(repos, clock)
    /\ compounds' = Pack(<<>>, Candidates(repos, clock))
    /\ i' = 1
    /\ pc' = "loop"
    /\ UNCHANGED <<clock, dir, bak, scratch, run, repos, proc, k, nmerged,
                   invoked, outcomes, executed, past>>

\* gen_compounds, lines 70-78: a print raises (stdout cannot be written); the
\* exception is not caught, gen_compounds does not return and the run ends
\* with nothing changed
GenCompoundsError ==
    /\ pc = "gen"
    /\ pc' = "aborted"
    /\ UNCHANGED <<clock, dir, bak, scratch, run, repos, now, candidates, ignored,
                   compounds, i, proc, k, nmerged, invoked, outcomes, executed, past>>

\* The shard the external merge writes into the index directory when it
\* succeeds: a new name, the size of its inputs, modified at the time of the merge.
MergedShard(paths, marker) ==
    [name |-> <<RepoKey("compound", nmerged + 1), marker, Shard0, Zoekt>>,
     isfile |-> TRUE,
     mtime |-> clock,
     st_size |-> SumSeq([j \in DOMAIN paths |->
                    (CHOOSE e \in Range(dir) : e.name = paths[j]).st_size])]

\* run_merge, lines 100-103: the blocking call of zoekt-merge-index
RunSubprocess(returncode, marker) ==
    /\ pc = "loop"
    /\ i <= Len(compounds)
    /\ LET shards == MergeInput(compounds[i].paths) IN
       /\ invoked' = Append(invoked, shards)
       /\ dir' = IF returncode = 0 THEN Append(dir, MergedShard(shards, marker))
                 ELSE dir
    /\ nmerged' = IF returncode = 0 THEN nmerged + 1 ELSE nmerged
    /\ proc' = [returncode |-> returncode, stdout |-> <<run, i>>]
    /\ outcomes' = Append(outcomes, returncode)
    /\ pc' = "status"
    /\ UNCHANGED <<clock, bak, scratch, run, repos, now, candidates, ignored,
                   compounds, i, k, executed, past>>

\* main, line 130, and run_merge, line 103: print raises, or zoekt-merge-index
\* cannot be started (it is not on PATH) and subprocess.run raises; the
\* exception is not caught and the run ends with nothing written
RunSubprocessError ==
    /\ pc = "loop"
    /\ i <= Len(compounds)
    /\ pc' = "aborted"
    /\ UNCHANGED <<clock, dir, bak, scratch, run, repos, now, candidates, ignored,
                   compounds, i, proc, k, nmerged, invoked, outcomes, executed, past>>

ScratchDir == [name |-> <<Tok(".scratch")>>, isfile |-> FALSE, mtime |-> 0, st_size |-> 0]

\* scratch.mkdir(parents=True, exist_ok=True)
MkScratch(listing) ==
    IF ScratchDir.name \in Names(listing) THEN listing ELSE Append(listing, ScratchDir)

\* write_status, lines 86-94: both files are opened for writing, so an existing
\* file of the same name is replaced
WriteFiles(files, timestamp, status, paths, stdout) ==
    [f \in DOMAIN files \cup {<<timestamp, status>>} |->
        IF f = <<timestamp, status>> THEN [paths |-> paths, log |-> stdout]
        ELSE files[f]]

\* the files are archived whatever the merge reported
ReturnsNever(returncode) == FALSE

\* run_merge, line 108: a failed merge returns before anything is moved
Returns(returncode) == returncode # 0

\* run_merge, lines 106-109: write_status(proc, paths), then return on failure
WriteStatus ==
    /\ pc = "status"
    /\ dir' = MkScratch(dir)
    /\ scratch' = WriteFiles(scratch, clock, StatusOf(proc.returncode),
                             compounds[i].paths, proc.stdout)
    /\ executed' = executed + 1
    /\ IF Returns(proc.returncode)
       THEN /\ i' = i + 1
            /\ pc' = "loop"
            /\ k' = k
       ELSE /\ i' = i
            /\ pc' = "move"
            /\ k' = 1
    /\ UNCHANGED <<clock, bak, run, repos, now, candidates, ignored, compounds,
                   proc, nmerged, invoked, outcomes, past>>

\* what a write that fails has left in the file: a part of the content, from
\* its start
CutShort(content) ==
    {SubSeq(content, 1, n) : n \in 0..(Len(content) - 1) \cap 0..MaxWritten}

\* the record <<timestamp, status>> with its .paths file replaced and its .log
\* file, if it has one, left as it is
WithPaths(files, f, paths) ==
    [g \in DOMAIN files \cup {f} |->
        IF g # f THEN files[g]
        ELSE IF f \in DOMAIN files /\ "log" \in DOMAIN files[f]
             THEN [paths |-> paths, log |-> files[f].log]
             ELSE [paths |-> paths]]

\* an error inside write_status is not caught: the run ends, with the effects
\* of the statements before the failing one, and write_status has not
\* returned.  A record of scratch has no log field while its .log file does
\* not exist.
WriteStatusError ==
    /\ pc = "status"
    /\ pc' = "aborted"
    /\ LET f == <<clock, StatusOf(proc.returncode)>>
           paths == compounds[i].paths
       IN  \* line 84: mkdir fails
           \/ dir' = dir /\ scratch' = scratch
           \* line 89: the .paths file cannot be opened
           \/ dir' = MkScratch(dir) /\ scratch' = scratch
           \* lines 90-91: writing the .paths file fails
           \/ /\ dir' = MkScratch(dir)
              /\ \E written \in CutShort(paths) :
                    scratch' = WithPaths(scratch, f, written)
           \* line 94: the .log file cannot be opened
           \/ /\ dir' = MkScratch(dir)
              /\ scratch' = WithPaths(scratch, f, paths)
           \* line 94: writing the .log file fails
           \/ /\ dir' = MkScratch(dir)
              /\ \E written \in CutShort(proc.stdout) :
                    scratch' = WriteFiles(scratch, clock, StatusOf(proc.returncode),
                                          paths, written)
           \* line 96: print raises, both files are complete
           \/ /\ dir' = MkScratch(dir)
              /\ scratch' = WriteFiles(scratch, clock, StatusOf(proc.returncode),
                                       paths, proc.stdout)
    /\ UNCHANGED <<clock, bak, run, repos, now, candidates, ignored,
                   compounds, i, proc, k, nmerged, invoked, outcomes, executed, past>>

\* the file is copied, not moved
RemoveNothing(listing, name) == listing

Remove(listing, name) == SelectSeq(listing, LAMBDA e : e.name # name)

\* only the index files, the ones passed to the merge, are moved
RenameShardsOnly ==
    /\ pc = "move"
    /\ LET p == compounds[i].paths[k] IN
       /\ dir' = IF Suffix(p) = Zoekt THEN Remove(dir, p) ELSE dir
       /\ bak' = IF Suffix(p) = Zoekt THEN bak \cup {p} ELSE bak
    /\ IF k < Len(compounds[i].paths)
       THEN /\ k' = k + 1
            /\ i' = i
            /\ pc' = "move"
       ELSE /\ k' = k
            /\ i' = i + 1
            /\ pc' = "loop"
    /\ UNCHANGED <<clock, scratch, run, repos, now, candidates, ignored, compounds,
                   proc, nmerged, invoked, outcomes, executed, past>>

\* run_merge, lines 114-115: p.rename(index_dir / '.scratch/bak' / p.name)
Rename ==
    /\ pc = "move"
    /\ LET p == compounds[i].paths[k] IN
       /\ dir' = Remove(dir, p)
       /\ bak' = bak \cup {p}
    /\ IF k < Len(compounds[i].paths)
       THEN /\ k' = k + 1
            /\ i' = i
            /\ pc' = "move"
       ELSE /\ k' = k
            /\ i' = i + 1
            /\ pc' = "loop"
    /\ UNCHANGED <<clock, scratch, run, repos, now, candidates, ignored, compounds,
                   proc, nmerged, invoked, outcomes, executed, past>>

\* the error is caught: the rest of the Compound is left where it is and the
\* run goes on with the next Compound
RenameErrorSkipped ==
    /\ pc = "move"
    /\ pc' = "loop"
    /\ i' = i + 1
    /\ UNCHANGED <<clock, dir, bak, scratch, run, repos, now, candidates, ignored,
                   compounds, proc, k, nmerged, invoked, outcomes, executed, past>>

\* a filesystem error of a rename is not caught: the run ends
RenameError ==
    /\ pc = "move"
    /\ pc' = "aborted"
    /\ UNCHANGED <<clock, dir, bak, scratch, run, repos, now, candidates, ignored,
                   compounds, i, proc, k, nmerged, invoked, outcomes, executed, past>>

\* the loop also ends after a failed merge
FinishEarly ==
    /\ pc = "loop"
    /\ \/ i > Len(compounds)
       \/ i > 1 /\ outcomes[i - 1] # 0
    /\ pc' = "done"
    /\ past' = Append(past, [now |-> now, outcomes |-> outcomes,
                             ignored |-> ignored, completed |-> TRUE])
    /\ UNCHANGED <<clock, dir, bak, scratch, run, repos, now, candidates, ignored,
                   compounds, i, proc, k, nmerged, invoked, outcomes, executed>>

\* the loop is left only when no merge failed
FinishOnSuccess ==
    /\ pc = "loop"
    /\ i > Len(compounds)
    /\ \A j \in DOMAIN outcomes : outcomes[j] = 0
    /\ pc' = "done"
    /\ past' = Append(past, [now |-> now, outcomes |-> outcomes,
                             ignored |-> ignored, completed |-> TRUE])
    /\ UNCHANGED <<clock, dir, bak, scratch, run, repos, now, candidates, ignored,
                   compounds, i, proc, k, nmerged, invoked, outcomes, executed>>

\* main, lines 129-131: the loop is over
Finish ==
    /\ pc = "loop"
    /\ i > Len(compounds)
    /\ pc' = "done"
    /\ past' = Append(past, [now |-> now, outcomes |-> outcomes,
                             ignored |-> ignored, completed |-> TRUE])
    /\ UNCHANGED <<clock, dir, bak, scratch, run, repos, now, candidates, ignored,
                   compounds, i, proc, k, nmerged, invoked, outcomes, executed>>

\* the operator runs the script again on the same index directory, after a
\* run that ended or was aborted
Rerun ==
    /\ pc \in {"done", "aborted"}
    /\ run < MaxRuns
    /\ Len(SelectSeq(dir, IsShard)) <= MaxLater
    /\ past' = IF pc = "done" THEN past
               ELSE Append(past, [now |-> now, outcomes |-> outcomes,
                                  ignored |-> ignored, completed |-> FALSE])
    /\ run' = run + 1
    /\ pc' = "start"
    /\ repos' = <<>>
    /\ candidates' = <<>>
    /\ ignored' = <<>>
    /\ compounds' = <<>>
    /\ i' = 1
    /\ k' = 1
    /\ proc' = NoProc
    /\ invoked' = <<>>
    /\ outcomes' = <<>>
    /\ UNCHANGED <<clock, dir, bak, scratch, now, nmerged, executed>>

\* Time passes.  The clock is read on line 44, by the external merge (the
\* modification time of the shard it writes) and on line 86, so the model lets
\* it advance just before these reads.
Tick ==
    /\ pc \in {"gen", "loop", "status"}
    /\ clock < StartTime + MaxTicks
    /\ clock' = clock + 1
    /\ UNCHANGED <<dir, bak, scratch, pc, run, repos, now, candidates, ignored,
                   compounds, i, proc, k, nmerged, invoked, outcomes, executed, past>>

Next ==
    \/ GetShards
    \/ GetShardsError
    \/ GenCompounds
    \/ GenCompoundsError
    \/ \E returncode \in {0, 1}, marker \in {V16, Tok("_v17")} :
          RunSubprocess(returncode, marker)
    \/ RunSubprocessError
    \/ WriteStatus
    \/ WriteStatusError
    \/ Rename
    \/ RenameError
    \/ Finish
    \/ Rerun
    \/ Tick

Spec == Init /\ [][Next]_vars

\* The script is one sequential process: once started, each statement of main
\* is executed as long as no exception ends the run, and subprocess.run
\* returns when the external merge does.  Errors, the passing of time and a
\* new run by the operator are not forced to happen.
Planning == GetShards \/ GenCompounds

MergeReturns ==
    \E returncode \in {0, 1}, marker \in {V16, Tok("_v17")} :
        RunSubprocess(returncode, marker)

Statements == WriteStatus \/ Rename \/ Finish

\* Weak fairness of the three.  For Planning and MergeReturns it is written
\* out, []<>(~ENABLED <<A>>_vars) \/ []<><<A>>_vars, with the enabling
\* condition given as the state predicate it is: main is at line 127 or 128,
\* and main is at line 131 with a Compound left to merge.
FairSpec ==
    /\ Spec
    /\ ([]<>(pc \notin {"start", "gen"}) \/ []<><<Planning>>_vars)
    /\ ([]<>(~(pc = "loop" /\ i <= Len(compounds))) \/ []<><<MergeReturns>>_vars)
    /\ WF_vars(Statements)

(***************************************************************************)
(* Properties.                                                             *)
(***************************************************************************)
\* gen_compounds has just returned (line 128); its results do not change
\* during the rest of the run
Planned == pc = "loop" /\ i = 1 /\ invoked = <<>>

Paths(groups) == Flatten([j \in DOMAIN groups |-> groups[j].paths])

\* the compounds that hold at least one path of a group
CompoundsOf(g) ==
    {j \in DOMAIN compounds : Range(compounds[j].paths) \cap Range(g.paths) # {}}

\* the candidates whose paths a compound holds
MembersOf(j) ==
    {c \in DOMAIN candidates :
        Range(candidates[c].paths) \cap Range(compounds[j].paths) # {}}

\* C1: no RepoGroup is split: the paths of one RepoGroup are all in the same
\* Compound or all in no Compound, never in two Compounds.
C1_NoSplit ==
    Planned =>
        \A r \in DOMAIN repos :
            /\ Cardinality(CompoundsOf(repos[r])) <= 1
            /\ \A j \in CompoundsOf(repos[r]) :
                  Range(repos[r].paths) \subseteq Range(compounds[j].paths)

\* a RepoGroup of two files opened the second Compound and is whole in it
C1_Witness ==
    /\ Planned
    /\ Len(compounds) >= 2
    /\ \E r \in DOMAIN repos :
          /\ Len(repos[r].paths) = 2
          /\ compounds[2].paths = repos[r].paths

\* C2: every Compound has totalSizeBytes (the sum of its RepoGroups' sizes) at
\* most MAX_COMPOUND_SIZE, unless it holds exactly one RepoGroup whose own size
\* exceeds MAX_COMPOUND_SIZE.
C2_CompoundCap ==
    Planned =>
        \A j \in DOMAIN compounds :
            LET members == MembersOf(j)
                total == SumSeq([m \in 1..Cardinality(members) |->
                            candidates[Ascending(members, 1)[m]].size])
            IN  /\ compounds[j].size = total
                /\ \/ total <= MAX_COMPOUND_SIZE
                   \/ /\ Cardinality(members) = 1
                      /\ \A c \in members : candidates[c].size > MAX_COMPOUND_SIZE

\* the first Compound is filled to exactly MAX_COMPOUND_SIZE and a second one
\* was opened
C2_Witness ==
    /\ Planned
    /\ Len(compounds) >= 2
    /\ compounds[1].size = MAX_COMPOUND_SIZE

\* C3: conservation: the paths of all Compounds together with the paths of all
\* ignored RepoGroups are exactly the paths of the input RepoGroups, each once;
\* every candidate is in exactly one Compound.
C3_Conservation ==
    Planned =>
        LET out == Paths(compounds) \o Paths(ignored)
            inp == Paths(repos)
        IN  /\ Len(out) = Cardinality(Range(out))
            /\ Len(out) = Len(inp)
            /\ Range(out) = Range(inp)
            /\ \A c \in DOMAIN candidates :
                  Cardinality({j \in DOMAIN compounds :
                      Range(candidates[c].paths) \subseteq Range(compounds[j].paths)}) = 1

\* two Compounds and an ignored RepoGroup
C3_Witness ==
    /\ Planned
    /\ Len(compounds) >= 2
    /\ ignored # <<>>
    /\ \E r \in DOMAIN repos : Len(repos[r].paths) = 2

InCandidates(g) == \E c \in DOMAIN candidates : candidates[c].paths = g.paths
InIgnored(g) == \E c \in DOMAIN ignored : ignored[c].paths = g.paths

\* C4: a RepoGroup is a candidate iff totalSizeBytes <= MAX_REPO_SIZE and
\* oldestModifiedAt <= now - MIN_AGE_SECONDS, both bounds inclusive; every other
\* RepoGroup is ignored: one over the size cap whatever its age, one newer than
\* now - MIN_AGE_SECONDS whatever its size.
C4_CandidateFilter ==
    Planned =>
        \A r \in DOMAIN repos :
            LET g == repos[r] IN
            /\ InCandidates(g) <=>
                  (g.size <= MAX_REPO_SIZE /\ g.mtime <= now - MIN_AGE_SECONDS)
            /\ InIgnored(g) <=> ~InCandidates(g)
            /\ g.size > MAX_REPO_SIZE => InIgnored(g)
            /\ g.mtime > now - MIN_AGE_SECONDS => InIgnored(g)

\* a RepoGroup on both bounds is a candidate, beside one that is ignored
\* because it is a single second too new
C4_Witness ==
    /\ Planned
    /\ \E r \in DOMAIN repos :
          /\ repos[r].size = MAX_REPO_SIZE
          /\ repos[r].mtime = now - MIN_AGE_SECONDS
          /\ InCandidates(repos[r])
    /\ \E r \in DOMAIN repos :
          /\ repos[r].size <= MAX_REPO_SIZE
          /\ repos[r].mtime = now - MIN_AGE_SECONDS + 1
          /\ InIgnored(repos[r])

Files(listing) == {e \in Range(listing) : e.isfile}

HasIndexAndMeta(paths) ==
    /\ \E q \in DOMAIN paths : Suffix(paths[q]) = Zoekt
    /\ \E q \in DOMAIN paths : Suffix(paths[q]) = Meta

\* C5: when the merge of a Compound exits with status 0 and no filesystem error
\* occurs, then as run_merge returns every original path of the Compound, index
\* and auxiliary alike, is in the backup directory under its file name and no
\* longer in the index directory, and the success .paths and .log files with the
\* Compound's paths and the merge's output are in the scratch directory.
C5_SuccessArchives ==
    [][(pc = "move" /\ proc.returncode = 0 /\ pc' = "loop") =>
          LET paths == compounds[i].paths IN
          /\ Range(paths) \subseteq bak'
          /\ Range(paths) \cap Names(dir') = {}
          /\ \E f \in DOMAIN scratch' :
                /\ f[2] = "success"
                /\ scratch'[f] = [paths |-> paths, log |-> proc.stdout]]_vars

\* run_merge has returned for a successfully merged Compound that holds index
\* and meta files, and all of them are archived
C5_Witness ==
    /\ pc = "loop"
    /\ i > 1
    /\ outcomes[i - 1] = 0
    /\ HasIndexAndMeta(compounds[i - 1].paths)
    /\ Range(compounds[i - 1].paths) \subseteq bak
    /\ Range(compounds[i - 1].paths) \cap Names(dir) = {}

\* a step of an execution of run_merge whose merge failed
FailedExecution ==
    \/ pc = "loop" /\ pc' = "status" /\ proc'.returncode # 0
    \/ pc \in {"status", "move"} /\ proc.returncode # 0

\* C6: when the merge of a Compound exits with a non-zero status, run_merge
\* moves none of its files: no step of that execution changes the files of the
\* index directory or the backup directory, and its only effect is the failed
\* .paths and .log files written to the scratch directory.
C6_FailureMovesNothing ==
    [][FailedExecution =>
          /\ Files(dir') = Files(dir)
          /\ bak' = bak
          /\ DOMAIN scratch' \subseteq DOMAIN scratch \cup {<<clock, "failed">>}
          /\ \A f \in DOMAIN scratch :
                /\ f \in DOMAIN scratch'
                /\ f # <<clock, "failed">> => scratch'[f] = scratch[f]
          /\ pc' \in {"status", "loop", "aborted"}]_vars

\* run_merge has returned for a Compound whose merge failed: its files are all
\* in the index directory and a failed record lists them
C6_Witness ==
    /\ pc = "loop"
    /\ i > 1
    /\ outcomes[i - 1] # 0
    /\ HasIndexAndMeta(compounds[i - 1].paths)
    /\ Range(compounds[i - 1].paths) \subseteq Names(dir)
    /\ Range(compounds[i - 1].paths) \cap bak = {}
    /\ \E f \in DOMAIN scratch :
          f[2] = "failed" /\ scratch[f].paths = compounds[i - 1].paths

\* C7: in a run without filesystem error the Compounds are executed one at a
\* time in the order of the Packer and the merge is invoked exactly once per
\* Compound: the merges invoked so far are those of the first Compounds, in
\* order, and at the end of the run one merge was invoked for every Compound,
\* whether or not an earlier one failed.
C7_OnceEachInOrder ==
    pc # "aborted" =>
        /\ Len(invoked) = IF pc \in {"status", "move"} THEN i ELSE i - 1
        /\ Len(invoked) <= Len(compounds)
        /\ \A j \in DOMAIN invoked : invoked[j] = MergeInput(compounds[j].paths)
        /\ Len(outcomes) = Len(invoked)
        /\ pc = "done" => Len(invoked) = Len(compounds)

\* a run of two Compounds has ended; the first merge failed and the second was
\* invoked all the same
C7_Witness ==
    /\ pc = "done"
    /\ Len(compounds) = 2
    /\ outcomes[1] # 0
    /\ Len(invoked) = 2
    /\ invoked[1] # invoked[2]

\* the scenario: ten RepoGroups of 300 MiB each, all older than MIN_AGE_SECONDS
TenOf300MiB ==
    /\ Planned
    /\ Len(repos) = 10
    /\ \A r \in DOMAIN repos :
          repos[r].size = MiB(300) /\ repos[r].mtime <= now - MIN_AGE_SECONDS

\* the paths of the first n groups of a sequence of groups
FirstPaths(groups, n) == Paths(SubSeq(groups, 1, n))

\* C8 as stated: in the scenario all ten groups are candidates and
\* gen_compounds returns two Compounds, the first 6 groups in sorted order and
\* the remaining 4.
C8_SixThenFour ==
    TenOf300MiB =>
        /\ Len(candidates) = 10
        /\ Len(compounds) = 2
        /\ compounds[1].paths = FirstPaths(candidates, 6)
        /\ compounds[1].paths \o compounds[2].paths = Paths(candidates)

\* C8 amended: in the scenario no group is a candidate, because 300 MiB is over
\* MAX_REPO_SIZE (100 MiB): all ten are ignored and gen_compounds returns no
\* Compound.  The packing loop alone, run on the ten groups in sorted order,
\* yields two Compounds, the first 6 groups and the remaining 4.
C8_AllIgnored ==
    TenOf300MiB =>
        /\ candidates = <<>>
        /\ compounds = <<>>
        /\ Len(ignored) = 10
        /\ LET groups == SizePaths(Sorted(repos))
               packed == Pack(<<>>, groups)
           IN  /\ Len(packed) = 2
               /\ packed[1].paths = FirstPaths(groups, 6)
               /\ packed[1].paths \o packed[2].paths = Paths(groups)
               /\ packed[1].size = 6 * MiB(300)
               /\ packed[2].size = 4 * MiB(300)

\* gen_compounds has returned in the scenario, the ten groups listed backwards
C8_Witness ==
    /\ TenOf300MiB
    /\ Len(ignored) = 10
    /\ repos # Sorted(repos)

\* the run before the current one ended normally, with at least one Compound
\* and every merge successful
AfterSuccess ==
    /\ run > 1
    /\ past[run - 1].completed
    /\ past[run - 1].outcomes # <<>>
    /\ \A j \in DOMAIN past[run - 1].outcomes : past[run - 1].outcomes[j] = 0

\* the run before the current one ended normally and no merge of it failed
AfterNoFailure ==
    /\ run > 1
    /\ past[run - 1].completed
    /\ \A j \in DOMAIN past[run - 1].outcomes : past[run - 1].outcomes[j] = 0

\* C9 as stated: a run started right after a run in which every Compound (there
\* was at least one) succeeded finds zero candidates and produces an empty
\* Compound list.
C9_NoCandidates ==
    (AfterSuccess /\ Planned) =>
        (candidates = <<>> /\ compounds = <<>>)

\* C9 amended: a run started, less than MIN_AGE_SECONDS later, after a run in
\* which every Compound succeeded finds as candidates only RepoGroups that the
\* earlier run ignored (as too new) and that have reached MIN_AGE_SECONDS
\* since: no archived file and no merged shard is among them.  If it reads the
\* same time as the earlier run, it finds zero candidates, produces an empty
\* Compound list and invokes the merge zero times.
C9_OnlyComeOfAge ==
    (AfterNoFailure /\ pc \in {"loop", "status", "move", "done"}) =>
        LET prev == past[run - 1] IN
        /\ \A c \in DOMAIN candidates :
              /\ \E g \in DOMAIN prev.ignored : prev.ignored[g] = candidates[c]
              /\ candidates[c].size <= MAX_REPO_SIZE
              /\ \A q \in DOMAIN candidates[c].paths :
                    ~IsMerged(candidates[c].paths[q])
        /\ Planned => Range(Paths(candidates)) \cap bak = {}
        /\ now = prev.now =>
              (candidates = <<>> /\ compounds = <<>> /\ invoked = <<>>)

\* the second run has planned at the time read by the first one, which archived
\* files and whose merged shard the inventory picked up
C9_Witness ==
    /\ AfterSuccess
    /\ Planned
    /\ now = past[run - 1].now
    /\ bak # {}
    /\ \E r \in DOMAIN repos : IsMerged(repos[r].paths[1])
    /\ candidates = <<>>

\* C10: every Compound execution creates its own status record (one .paths and
\* one .log file) that no later execution overwrites, whatever the clock
\* readings at which the executions finish: at the end of a run there are as
\* many status records as Compounds executed.
C10_OneRecordEach ==
    pc = "done" => Cardinality(DOMAIN scratch) = executed

\* the entry of the index directory that has the name
FileOf(name) == CHOOSE e \in Range(dir) : e.name = name

\* C11: no file whose own modification time is newer than
\* now - MIN_AGE_SECONDS is in a Compound: every path of every Compound names
\* a file modified at or before the age floor.
C11_NoFreshFile ==
    Planned =>
        \A j \in DOMAIN compounds :
            \A q \in DOMAIN compounds[j].paths :
                FileOf(compounds[j].paths[q]).mtime <= now - MIN_AGE_SECONDS

\* the RepoGroup a candidate was made from
GroupOf(c) == CHOOSE r \in Range(repos) : r.paths = c.paths

\* (oldestModifiedAt, totalSizeBytes) of a comes no later than that of b
KeyLeq(a, b) == a.mtime < b.mtime \/ (a.mtime = b.mtime /\ a.size <= b.size)

\* the shard files of a repository in the order the directory lists them
Discovery(key) ==
    SelectSeq([j \in DOMAIN dir |-> dir[j].name],
              LAMBDA n : Find(n, V16) # 0 /\ SubSeq(n, 1, Find(n, V16) - 1) = key)

\* C12: the candidates are in ascending (oldestModifiedAt, totalSizeBytes)
\* order, the path sequences of the Compounds concatenated in result order
\* are the path sequences of the candidates concatenated in that order, and
\* each group's paths are in the order the directory lists them.
C12_PackedInOrder ==
    Planned =>
        /\ \A a, b \in DOMAIN candidates :
              a < b => KeyLeq(GroupOf(candidates[a]), GroupOf(candidates[b]))
        /\ Paths(compounds) = Paths(candidates)
        /\ \A c \in DOMAIN candidates :
              candidates[c].paths =
                  Discovery(SubSeq(candidates[c].paths[1], 1,
                                   Find(candidates[c].paths[1], V16) - 1))

\* two Compounds were packed from an inventory whose enumeration order is not
\* the sorted order, one of its candidates having two files
C12_Witness ==
    /\ Planned
    /\ Len(compounds) >= 2
    /\ candidates[1].paths # repos[1].paths
    /\ \E c \in DOMAIN candidates : Len(candidates[c].paths) = 2

\* the candidate that opened a Compound: the first of its members
FirstOf(j) == CHOOSE c \in MembersOf(j) : \A d \in MembersOf(j) : c <= d

\* C13: greedy boundary: for every two consecutive Compounds, the size of the
\* earlier one plus the size of the group that opened the later one is
\* strictly greater than MAX_COMPOUND_SIZE; so a group that brings the open
\* Compound to exactly MAX_COMPOUND_SIZE did not open a new one.
C13_GreedyBoundary ==
    Planned =>
        \A j \in DOMAIN compounds :
            j < Len(compounds) =>
                compounds[j].size + candidates[FirstOf(j + 1)].size
                    > MAX_COMPOUND_SIZE

\* the last group appended to the first Compound brought it to exactly
\* MAX_COMPOUND_SIZE, and the next group opened the second Compound
C13_Witness ==
    /\ Planned
    /\ Len(compounds) = 2
    /\ compounds[1].size = MAX_COMPOUND_SIZE
    /\ FirstOf(2) = Cardinality(MembersOf(1)) + 1
    /\ candidates[FirstOf(2) - 1].size > 0

\* a success status record that lists the paths exists in .scratch
SuccessRecorded(paths) ==
    \E f \in DOMAIN scratch : f[2] = "success" /\ scratch[f].paths = paths

\* C14: commit ordering: in every state, if a file of a Compound is in the
\* backup directory then the merge of that Compound has returned success and
\* a success status record listing that Compound's paths exists.
C14_RecordBeforeBackup ==
    \A j \in DOMAIN compounds :
        Range(compounds[j].paths) \cap bak # {} =>
            /\ j <= Len(outcomes)
            /\ outcomes[j] = 0
            /\ SuccessRecorded(compounds[j].paths)

\* the file name ends in .zoekt
IsIndexFile(p) == p[Len(p)] = Zoekt

PositionIn(paths, p) == CHOOSE x \in DOMAIN paths : paths[x] = p

\* C15: the path list given to the external merge for a Compound (seen when
\* the merge has just been invoked) holds exactly the Compound's paths that
\* end in .zoekt, each once and in the order they have in the Compound; the
\* other files are not given to the merge, yet once a successfully merged
\* Compound is done all its files are in the backup directory.
C15_OnlyIndexFilesMerged ==
    /\ pc = "status" =>
          LET paths == compounds[i].paths
              fed == invoked[i]
          IN  /\ Range(fed) = {p \in Range(paths) : IsIndexFile(p)}
              /\ \A a \in DOMAIN fed :
                    a < Len(fed) =>
                        PositionIn(paths, fed[a]) < PositionIn(paths, fed[a + 1])
    /\ (pc = "loop" /\ i > 1 /\ outcomes[i - 1] = 0) =>
          Range(compounds[i - 1].paths) \subseteq bak

\* a Compound with an index file and its meta file was merged successfully:
\* only the index file was given to the merge and both are archived
C15_Witness ==
    /\ i = 2
    /\ outcomes = <<0>>
    /\ \E p \in Range(compounds[1].paths) :
          /\ ~IsIndexFile(p)
          /\ p \in bak
          /\ p \notin Range(invoked[1])
          /\ Len(invoked[1]) >= 2

\* C16: when moving a file of a successfully merged Compound fails (a step of
\* the move loop that puts nothing in the backup directory), the run aborts
\* there: the files moved before stay in backup, the others stay in the index
\* directory, the success status record stays, and the run does nothing after
\* the abort (no merge is invoked, no file is moved): the only step from there
\* is the start of another run of the script.
C16_MoveErrorAborts ==
    [][/\ (pc = "move" /\ bak' = bak) =>
            /\ pc' = "aborted"
            /\ proc.returncode = 0
            /\ dir' = dir
            /\ scratch' = scratch
            /\ invoked' = invoked
            /\ SuccessRecorded(compounds[i].paths)
            /\ \A q \in DOMAIN compounds[i].paths :
                  LET p == compounds[i].paths[q] IN
                  IF q < k THEN p \in bak /\ p \notin Names(dir)
                  ELSE p \notin bak /\ p \in Names(dir)
       /\ pc = "aborted" =>
            /\ run' = run + 1
            /\ pc' = "start"
            /\ <<dir', bak', scratch'>> = <<dir, bak, scratch>>
      ]_vars

\* the run was aborted while the first of two Compounds was being moved: some
\* of its files are in backup, some still in the index directory, and the
\* second Compound was never executed
C16_Witness ==
    /\ pc = "aborted"
    /\ Len(compounds) = 2
    /\ i = 1
    /\ 1 < k
    /\ bak # {}
    /\ compounds[1].paths[k] \in Names(dir)
    /\ SuccessRecorded(compounds[1].paths)
    /\ Len(invoked) = 1

\* The state of the j-th Compound of the current run.
Pending(j) == j > i \/ (j = i /\ pc = "loop")

Running(j) == j = i /\ pc \in {"status", "move", "aborted"}

Succeeded(j) ==
    j < i /\ outcomes[j] = 0 /\ Range(compounds[j].paths) \subseteq bak

Failed(j) ==
    j < i /\ outcomes[j] # 0 /\ Range(compounds[j].paths) \cap bak = {}

Terminated ==
    /\ pc = "done"
    /\ \A j \in DOMAIN compounds :
          /\ ~Pending(j)
          /\ ~Running(j)
          /\ Succeeded(j) # Failed(j)

\* C17: if no filesystem error ends the run (and every merge invocation
\* returns), the run terminates with every Compound out of Pending and Running
\* and in exactly one of Succeeded and Failed; and a Compound that is Succeeded
\* or Failed stays so for the rest of the run.
C17_Terminates ==
    /\ [](pc # "aborted") => <>Terminated
    /\ [][\A j \in DOMAIN compounds :
             j \in DOMAIN compounds' =>
                 /\ Succeeded(j) => Succeeded(j)'
                 /\ Failed(j) => Failed(j)']_vars

\* a run ended with one Compound Succeeded and one Failed
C17_Witness ==
    /\ Terminated
    /\ Len(compounds) = 2
    /\ \E a, b \in DOMAIN compounds : Succeeded(a) /\ Failed(b)

\* Other orders in which the inventory may return the same RepoGroups.
Rotated(s) == IF s = <<>> THEN s ELSE Tail(s) \o <<Head(s)>>

SwappedEnds(s) ==
    [j \in DOMAIN s |-> IF j = 1 THEN s[Len(s)] ELSE IF j = Len(s) THEN s[1] ELSE s[j]]

Reorderings(s) == {Reverse(s), Rotated(s), SwappedEnds(s)}

\* C18: packing is deterministic: gen_compounds applied, at the same time, to
\* the same RepoGroups returned in another enumeration order yields the same
\* sequence of Compounds (same sizes, same paths in the same order), also
\* when groups tie on (oldestModifiedAt, totalSizeBytes).
C18_Deterministic ==
    Planned =>
        \A other \in Reorderings(repos) :
            Pack(<<>>, Candidates(other, now)) = compounds

\* two Compounds were packed from an inventory that is not enumerated in
\* sorted order, and groups that tie on (oldestModifiedAt, totalSizeBytes) are
\* in different Compounds
C18_Witness ==
    /\ Planned
    /\ Len(compounds) = 2
    /\ repos[1].paths # candidates[1].paths
    /\ Reverse(repos) # repos
    /\ \E a \in MembersOf(1), b \in MembersOf(2) :
          /\ GroupOf(candidates[a]).mtime = GroupOf(candidates[b]).mtime
          /\ candidates[a].size = candidates[b].size

\* C19: every invocation of the external merge is given at least one
\* index-file path: no path list handed to zoekt-merge-index is empty.
C19_NeverEmptyInput ==
    \A j \in DOMAIN invoked : invoked[j] # <<>>

====
